---- MODULE Spec2Model ----
(***************************************************************************)
(* The sybil-provider contract of src/src/lib.rs as a state machine.      *)
(*                                                                         *)
(* The contract state is the two persistent maps `records` and `handles`   *)
(* (admin_pub is fixed by `new` and never written again).  The host        *)
(* supplies the signer, the block height and the block timestamp.  Each    *)
(* public method is one action; a method that panics is rolled back as a   *)
(* whole by the host, so a panicking call commits nothing.  The writes the *)
(* method issued before it panicked are counted in last.writes.            *)
(*                                                                         *)
(* Time is counted in units of 90 days (7 776 000 000 000 000 ns), so the  *)
(* validity window 3 * 30 * 24 * 60 * 60 * 1_000_000_000 ns of line 61 is  *)
(* one unit.                                                              *)
(***************************************************************************)
EXTENDS Integers, Sequences, FiniteSets, TLC

VARIABLES
    records,    \* Contract.records: AccountId -> UserData
    handles,    \* Contract.handles: (platform, handle) -> AccountId
    height,     \* env::block_height()
    now,        \* env::block_timestamp()
    last,       \* the transaction being finalised: call, outcome, maps before it
    kept        \* an accepted request a caller has kept a copy of, to resubmit it

vars == <<records, handles, height, now, last, kept>>

(* ------------------------------ bounds -------------------------------- *)

\* the block height stops advancing here
MaxHeight == 1
\* the block timestamp stops advancing here
MaxTime == 2

(* --------------------------- input domains ---------------------------- *)

Identities == {"alice", "bob"}
Platforms == {"lens", "farcaster"}
Handles == {"h1", "h2"}
Proofs == {"p1", "p2"}
AccountInfos == {5, 20}
\* the deadlines a request may carry: from one that has always lapsed to one
\* that never lapses
Deadlines == 0 .. (MaxHeight + 1)

\* Option<T>: None is the empty sequence, Some(x) the one-element sequence
None == << >>
Some(x) == << x >>

(* ----------------------------- signatures ----------------------------- *)

\* the canonical message of register_social (line 58)
RegisterMessage(account_id, platform, handle, proof, max_block_height) ==
    account_id \o "," \o platform \o "," \o handle \o "," \o proof \o ","
        \o ToString(max_block_height)

\* the canonical message of update_access_key and update_contract_age
\* (lines 88 and 112: the same format for both)
InfoMessage(account_id, account_info, max_block_height) ==
    account_id \o "," \o ToString(account_info) \o "," \o ToString(max_block_height)

\* A signature argument.  A byte vector that is no 64-byte ed25519 signature
\* is Malformed; a well-formed one is identified with the message the holder
\* of admin_pub's secret key signed: ed25519 verification under admin_pub
\* accepts it for exactly that message.
Malformed == [wellformed |-> FALSE, msg |-> ""]
Sign(msg) == [wellformed |-> TRUE, msg |-> msg]

\* Signature::try_from(..).expect("invalid SIg.") (lines 56, 86, 110)
SignatureParses(signature) == signature.wellformed

\* a verifier that accepts every well-formed signature
VerifyAnyMessage(message, signature) == TRUE

\* public_key.verify(message.as_bytes(), &signature).is_ok() (lines 59, 89, 113)
Verify(message, signature) == signature.msg = message

(* ------------------------------ helpers ------------------------------- *)

\* an insert that forgets the other keys of the map
InsertAlone(map, k, v) == [x \in {k} |-> v]

\* map.insert(k, v) on a map kept as a function of finite domain
Insert(map, k, v) == [x \in (DOMAIN map) \cup {k} |-> IF x = k THEN v ELSE map[x]]

\* map.get(k) as an Option
Get(map, k) == IF k \in DOMAIN map THEN Some(map[k]) ELSE None

\* block_timestamp() + 3 * 30 * 24 * 60 * 60 * 1_000_000_000 (line 61), in units of 90 days
ValidityWindow == 1

\* a guard that still lets a request through at its deadline
ReplayGuardLoose(max_block_height) == max_block_height >= height

\* require!(max_block_height > env::block_height(), "expired request")
ReplayGuard(max_block_height) == max_block_height > height

\* a handle check that treats an attestation as expired at its expiry_date
HandleCheckInclusive(user_data, platform, handle) ==
    \/ <<platform, handle>> \notin DOMAIN handles
    \/ /\ platform \in DOMAIN user_data.socials
       /\ user_data.socials[platform].expiry_date <= now

\* the condition asserted on line 54 (evaluated only when the signer has a record)
HandleCheck(user_data, platform, handle) ==
    \/ <<platform, handle>> \notin DOMAIN handles
    \/ /\ platform \in DOMAIN user_data.socials
       /\ user_data.socials[platform].expiry_date < now

\* a call that panicked after `writes` storage writes: the host discards them
Abort(msg, writes) ==
    [result |-> msg, writes |-> writes, records |-> records, handles |-> handles]

\* a successful call of which only the index writes are kept
CommitIndexOnly(writes, new_records, new_handles) ==
    [result |-> "ok", writes |-> writes, records |-> records, handles |-> new_handles]

\* a call that returned: its writes are kept
Commit(writes, new_records, new_handles) ==
    [result |-> "ok", writes |-> writes, records |-> new_records, handles |-> new_handles]

\* an attestation that expires when it is issued
SocialDataNoWindow(handle, proof) ==
    [issued_date |-> now, handle |-> handle, proof |-> proof,
     expiry_date |-> now]

\* an attestation whose expiry_date is counted back from the end of time
SocialDataCountdown(handle, proof) ==
    [issued_date |-> now, handle |-> handle, proof |-> proof,
     expiry_date |-> MaxTime + ValidityWindow - now]

\* SocialData { issued_date: env::block_timestamp(), handle, proof, expiry_date }
\* (lines 67 and 74, expiry_date from line 61)
SocialData(handle, proof) ==
    [issued_date |-> now, handle |-> handle, proof |-> proof,
     expiry_date |-> now + ValidityWindow]

(* --------------------------- register_social -------------------------- *)

\* a registration that leaves an index entry with the identity that holds it
RegisterWriteKeepHolder(account_id, user_dat, platform, handle, proof) ==
    LET new_handles == IF <<platform, handle>> \in DOMAIN handles
                       THEN handles
                       ELSE Insert(handles, <<platform, handle>>, account_id)
        socials == IF user_dat # None THEN user_dat[1].socials ELSE << >> IN
    IF platform \in DOMAIN socials /\ socials[platform].proof = proof
    THEN Abort("incorrect proof", 1)
    ELSE Commit(2,
            Insert(records, account_id,
                [access_key_count |-> IF user_dat # None
                                      THEN user_dat[1].access_key_count ELSE None,
                 account_age |-> IF user_dat # None
                                 THEN user_dat[1].account_age ELSE None,
                 socials |-> Insert(socials, platform, SocialData(handle, proof))]),
            new_handles)

\* a registration that always stores a new record holding only this platform
RegisterWriteFresh(account_id, user_dat, platform, handle, proof) ==
    Commit(2,
        Insert(records, account_id,
            [access_key_count |-> None,
             account_age |-> None,
             socials |-> Insert(<< >>, platform, SocialData(handle, proof))]),
        Insert(handles, <<platform, handle>>, account_id))

\* lines 61-79: the index write, the duplicate-proof check, the record write
RegisterWrite(account_id, user_dat, platform, handle, proof) ==
    LET new_handles == Insert(handles, <<platform, handle>>, account_id) IN
    IF user_dat # None
    THEN LET user_data == user_dat[1] IN
         IF platform \in DOMAIN user_data.socials
               /\ user_data.socials[platform].proof = proof
         THEN Abort("incorrect proof", 1)
         ELSE Commit(2,
                Insert(records, account_id,
                    [user_data EXCEPT
                        !.socials = Insert(@, platform, SocialData(handle, proof))]),
                new_handles)
    ELSE Commit(2,
            Insert(records, account_id,
                [access_key_count |-> None,
                 account_age |-> None,
                 socials |-> Insert(<< >>, platform, SocialData(handle, proof))]),
            new_handles)

\* the whole method, lines 47-81, in the order of the code
RegisterSocialRun(account_id, platform, signature, handle, proof, max_block_height) ==
    LET user_dat == Get(records, account_id) IN
    IF ~ReplayGuard(max_block_height) THEN Abort("expired request", 0)
    ELSE IF user_dat # None /\ ~HandleCheck(user_dat[1], platform, handle)
    THEN Abort("handle already registered", 0)
    ELSE IF ~SignatureParses(signature) THEN Abort("invalid SIg.", 0)
    ELSE IF ~Verify(RegisterMessage(account_id, platform, handle, proof,
                                    max_block_height), signature)
    THEN Abort("unverified data", 0)
    ELSE RegisterWrite(account_id, user_dat, platform, handle, proof)

(* ------------------ update_access_key / update_contract_age ----------- *)

\* an update that always builds a new record around the value
SetAccessKeyFresh(user_dat, account_info) ==
    [access_key_count |-> Some(account_info),
     account_age |-> None,
     socials |-> << >>]

\* an update that rebuilds the record and forgets account_age
SetAccessKeyClearAge(user_dat, account_info) ==
    [access_key_count |-> Some(account_info),
     account_age |-> None,
     socials |-> IF user_dat # None THEN user_dat[1].socials ELSE << >>]

\* lines 91-101: the record update_access_key stores
SetAccessKey(user_dat, account_info) ==
    IF user_dat # None
    THEN [user_dat[1] EXCEPT !.access_key_count = Some(account_info)]
    ELSE [access_key_count |-> Some(account_info),
          account_age |-> None,
          socials |-> << >>]

\* an update that keeps an account_age that is already set
SetContractAgeKeepFirst(user_dat, account_info) ==
    IF user_dat # None
    THEN IF user_dat[1].account_age # None
         THEN user_dat[1]
         ELSE [user_dat[1] EXCEPT !.account_age = Some(account_info)]
    ELSE [access_key_count |-> None,
          account_age |-> Some(account_info),
          socials |-> << >>]

\* lines 115-125: the record update_contract_age stores
SetContractAge(user_dat, account_info) ==
    IF user_dat # None
    THEN [user_dat[1] EXCEPT !.account_age = Some(account_info)]
    ELSE [access_key_count |-> None,
          account_age |-> Some(account_info),
          socials |-> << >>]

\* lines 83-102
UpdateAccessKeyRun(account_id, signature, account_info, max_block_height) ==
    IF ~ReplayGuard(max_block_height) THEN Abort("expired request", 0)
    ELSE IF ~SignatureParses(signature) THEN Abort("invalid SIg.", 0)
    ELSE IF ~Verify(InfoMessage(account_id, account_info, max_block_height), signature)
    THEN Abort("unverified data", 0)
    ELSE Commit(1,
            Insert(records, account_id,
                   SetAccessKey(Get(records, account_id), account_info)),
            handles)

\* lines 105-126
UpdateContractAgeRun(account_id, signature, account_info, max_block_height) ==
    IF ~ReplayGuard(max_block_height) THEN Abort("expired request", 0)
    ELSE IF ~SignatureParses(signature) THEN Abort("invalid SIg.", 0)
    ELSE IF ~Verify(InfoMessage(account_id, account_info, max_block_height), signature)
    THEN Abort("unverified data", 0)
    ELSE Commit(1,
            Insert(records, account_id,
                   SetContractAge(Get(records, account_id), account_info)),
            handles)


(* ----------------------------- predicates ----------------------------- *)

\* the outcome of a view call: the boolean it returns, or a panic
Returns(b) == [panic |-> FALSE, value |-> b]
Panics == [panic |-> TRUE, value |-> FALSE]

\* data.access_key_count.unwrap() >= threshold (lines 130, 137, 161): unwrap
\* panics on None
AccessKeyAtLeast(data, threshold) ==
    IF data.access_key_count = None
    THEN Panics
    ELSE Returns(data.access_key_count[1] >= threshold)

\* lines 128-133
connected_to_5_contracts(account_id) ==
    IF Get(records, account_id) # None
    THEN AccessKeyAtLeast(records[account_id], 5)
    ELSE Returns(FALSE)

\* lines 159-164
connected_to_10_contracts(account_id) ==
    IF Get(records, account_id) # None
    THEN AccessKeyAtLeast(records[account_id], 10)
    ELSE Returns(FALSE)

\* lines 135-140
connected_to_20_contracts(account_id) ==
    IF Get(records, account_id) # None
    THEN AccessKeyAtLeast(records[account_id], 20)
    ELSE Returns(FALSE)

\* lines 142-150
connected_to_lens(account_id) ==
    IF Get(records, account_id) # None
    THEN LET lens_socials == Get(records[account_id].socials, "lens") IN
         IF lens_socials # None
         THEN Returns(lens_socials[1].expiry_date > now)
         ELSE Returns(FALSE)
    ELSE Returns(FALSE)

\* lines 152-157
connected_to_farcaster(account_id) ==
    IF Get(records, account_id) # None
    THEN IF Get(records[account_id].socials, "farcaster") # None
         THEN Returns(TRUE)
         ELSE Returns(FALSE)
    ELSE Returns(FALSE)

\* lines 177-182
connected_to_platform(account_id, platform) ==
    IF Get(records, account_id) # None
    THEN Returns(Get(records[account_id].socials, platform) # None)
    ELSE Returns(FALSE)

(* ------------------------------ requests ------------------------------ *)

\* The signatures a caller may present with a registration: bytes that are no
\* signature, the authority's signature of this very request, or the
\* authority's signature of a request that differs from it in one field.
RegisterSignatures(account_id, platform, handle, proof, max_block_height) ==
    {Malformed}
    \cup {Sign(RegisterMessage(a, platform, handle, proof, max_block_height)) :
            a \in Identities}
    \cup {Sign(RegisterMessage(account_id, p, handle, proof, max_block_height)) :
            p \in Platforms}
    \cup {Sign(RegisterMessage(account_id, platform, h, proof, max_block_height)) :
            h \in Handles}
    \cup {Sign(RegisterMessage(account_id, platform, handle, q, max_block_height)) :
            q \in Proofs}
    \cup {Sign(RegisterMessage(account_id, platform, handle, proof, m)) :
            m \in {max_block_height, max_block_height + 1}}

\* the same for the two scalar updates
InfoSignatures(account_id, account_info, max_block_height) ==
    {Malformed}
    \cup {Sign(InfoMessage(a, account_info, max_block_height)) : a \in Identities}
    \cup {Sign(InfoMessage(account_id, v, max_block_height)) : v \in AccountInfos}
    \cup {Sign(InfoMessage(account_id, account_info, m)) :
            m \in {max_block_height, max_block_height + 1}}

\* no transaction is being finalised
NoCall ==
    [op |-> "none", signer |-> "", platform |-> "", handle |-> "", proof |-> "",
     account_info |-> 0, max_block_height |-> 0, signature |-> Malformed,
     result |-> "none", writes |-> 0, records |-> << >>, handles |-> << >>]

(* ------------------------------- actions ------------------------------ *)

\* Contract::new (lines 38-44): both maps empty
Init ==
    /\ records = << >>
    /\ handles = << >>
    /\ height = 0
    /\ now = 0
    /\ last = NoCall
    /\ kept = None

\* One transaction calling register_social.  `last` keeps the call, its
\* outcome and the maps as they were when it started.
register_social(account_id, platform, signature, handle, proof, max_block_height) ==
    LET run == RegisterSocialRun(account_id, platform, signature, handle, proof,
                                 max_block_height) IN
    /\ last = NoCall
    /\ records' = run.records
    /\ handles' = run.handles
    /\ last' = [op |-> "register_social", signer |-> account_id,
                platform |-> platform, handle |-> handle, proof |-> proof,
                account_info |-> 0, max_block_height |-> max_block_height,
                signature |-> signature, result |-> run.result, writes |-> run.writes,
                records |-> records, handles |-> handles]
    /\ UNCHANGED <<height, now>>

update_access_key(account_id, signature, account_info, max_block_height) ==
    LET run == UpdateAccessKeyRun(account_id, signature, account_info,
                                  max_block_height) IN
    /\ last = NoCall
    /\ records' = run.records
    /\ handles' = run.handles
    /\ last' = [op |-> "update_access_key", signer |-> account_id,
                platform |-> "", handle |-> "", proof |-> "",
                account_info |-> account_info, max_block_height |-> max_block_height,
                signature |-> signature, result |-> run.result, writes |-> run.writes,
                records |-> records, handles |-> handles]
    /\ UNCHANGED <<height, now>>

update_contract_age(account_id, signature, account_info, max_block_height) ==
    LET run == UpdateContractAgeRun(account_id, signature, account_info,
                                    max_block_height) IN
    /\ last = NoCall
    /\ records' = run.records
    /\ handles' = run.handles
    /\ last' = [op |-> "update_contract_age", signer |-> account_id,
                platform |-> "", handle |-> "", proof |-> "",
                account_info |-> account_info, max_block_height |-> max_block_height,
                signature |-> signature, result |-> run.result, writes |-> run.writes,
                records |-> records, handles |-> handles]
    /\ UNCHANGED <<height, now>>

\* the host hands the outcome of the transaction back; the next one may run
Return ==
    /\ last # NoCall
    /\ last' = NoCall
    /\ UNCHANGED <<records, handles, height, now, kept>>

\* the host produces the next block: the height grows by one and the
\* timestamp does not go back
AdvanceBlock(dt) ==
    /\ last = NoCall
    /\ height < MaxHeight
    /\ now + dt <= MaxTime
    /\ height' = height + 1
    /\ now' = now + dt
    /\ UNCHANGED <<records, handles, last, kept>>

\* the call as the caller sent it
Request(call) ==
    [op |-> call.op, signer |-> call.signer, platform |-> call.platform,
     handle |-> call.handle, proof |-> call.proof, account_info |-> call.account_info,
     max_block_height |-> call.max_block_height, signature |-> call.signature]

\* a caller may keep a copy of a request that was just accepted
Keep(keeping) ==
    kept' \in IF keeping /\ last'.result = "ok"
              THEN {kept, Some(Request(last'))}
              ELSE {kept}

RegisterSocialCall(ids, platforms, hs, proofs, deadlines, keeping) ==
    \E a \in ids, p \in platforms, h \in hs, q \in proofs, m \in deadlines :
        \E s \in RegisterSignatures(a, p, h, q, m) :
            register_social(a, p, s, h, q, m) /\ Keep(keeping)

UpdateAccessKeyCall(ids, infos, deadlines, keeping) ==
    \E a \in ids, v \in infos, m \in deadlines :
        \E s \in InfoSignatures(a, v, m) :
            update_access_key(a, s, v, m) /\ Keep(keeping)

UpdateContractAgeCall(ids, infos, deadlines, keeping) ==
    \E a \in ids, v \in infos, m \in deadlines :
        \E s \in InfoSignatures(a, v, m) :
            update_contract_age(a, s, v, m) /\ Keep(keeping)

AdvanceBlockStep == \E dt \in 0 .. MaxTime : AdvanceBlock(dt)

\* a deadline that lapses at height 1 and one that never lapses
ArbitrationDeadlines == {1, MaxHeight + 1}

\* handle arbitration: two identities contend for the handles of one platform
Next ==
    \/ RegisterSocialCall(Identities, {"lens"}, Handles, Proofs, ArbitrationDeadlines, FALSE)
    \/ UpdateAccessKeyCall(Identities, {5}, ArbitrationDeadlines, FALSE)
    \/ Return
    \/ AdvanceBlockStep

Spec == Init /\ [][Next]_vars

\* record merging: alice collects both platforms and both scalar fields
\* while bob holds a record of his own
NextMerge ==
    \/ RegisterSocialCall({"alice"}, Platforms, {"h1"}, {"p1"}, Deadlines, FALSE)
    \/ RegisterSocialCall({"bob"}, {"lens"}, {"h1"}, {"p1"}, Deadlines, FALSE)
    \/ UpdateAccessKeyCall({"alice"}, AccountInfos, Deadlines, FALSE)
    \/ UpdateContractAgeCall({"alice"}, AccountInfos, Deadlines, FALSE)
    \/ Return
    \/ AdvanceBlockStep

SpecMerge == Init /\ [][NextMerge]_vars

\* replay: alice resubmits requests that were accepted before
NextReplay ==
    \/ RegisterSocialCall({"alice"}, {"lens"}, {"h1"}, Proofs, Deadlines, TRUE)
    \/ UpdateAccessKeyCall({"alice"}, {5}, Deadlines, TRUE)
    \/ UpdateContractAgeCall({"alice"}, {5}, Deadlines, TRUE)
    \/ Return
    \/ AdvanceBlockStep

SpecReplay == Init /\ [][NextReplay]_vars

(* ------------------------- reading a transaction ---------------------- *)

\* the maps as they were when the transaction of `last` started
PreRecords == last.records
PreHandles == last.handles

Called == last.op # "none"
Accepted == Called /\ last.result = "ok"
Rejected == Called /\ last.result # "ok"
NotExpired == last.max_block_height > height

\* the signature presented is the authority's signature of the submitted fields
ValidlySigned ==
    last.signature =
        IF last.op = "register_social"
        THEN Sign(RegisterMessage(last.signer, last.platform, last.handle, last.proof,
                                  last.max_block_height))
        ELSE Sign(InfoMessage(last.signer, last.account_info, last.max_block_height))

\* a validly signed, non-expired register_social
ValidRegistration == last.op = "register_social" /\ NotExpired /\ ValidlySigned

HasSocial(recs, a, p) == a \in DOMAIN recs /\ p \in DOMAIN recs[a].socials
IsLive(social) == social.expiry_date > now
IsExpired(social) == now > social.expiry_date

(* -------------------------------- C1 ---------------------------------- *)

\* C1 (as claimed): no two distinct identities hold, for the same platform,
\* live attestations with the same handle.
C1_Uniqueness ==
    \A a \in Identities, b \in Identities, p \in Platforms :
        (a # b /\ HasSocial(records, a, p) /\ HasSocial(records, b, p)
              /\ IsLive(records[a].socials[p]) /\ IsLive(records[b].socials[p]))
            => records[a].socials[p].handle # records[b].socials[p].handle

(* -------------------------------- C2 ---------------------------------- *)

\* C2 (as claimed): a validly signed, non-expired register_social by the
\* identity the handle index already maps (platform, handle) to is never
\* rejected with "handle already registered".
C2_IdempotentRenewal ==
    (/\ ValidRegistration
     /\ <<last.platform, last.handle>> \in DOMAIN PreHandles
     /\ PreHandles[<<last.platform, last.handle>>] = last.signer)
        => last.result # "handle already registered"

\* the signer's own attestation for the platform, as line 54 reads it:
\* present and with expiry_date < block_timestamp()
OwnExpired ==
    /\ HasSocial(PreRecords, last.signer, last.platform)
    /\ IsExpired(PreRecords[last.signer].socials[last.platform])

\* C2 (amended): a validly signed, non-expired register_social by the identity
\* the index maps (platform, handle) to is rejected with "handle already
\* registered" exactly while that identity's attestation for the platform has
\* not expired (expiry_date >= now); once it has expired the renewal is never
\* answered with the handle conflict.
C2_RenewalAfterExpiry ==
    (/\ ValidRegistration
     /\ <<last.platform, last.handle>> \in DOMAIN PreHandles
     /\ PreHandles[<<last.platform, last.handle>>] = last.signer)
        => (last.result = "handle already registered" <=> ~OwnExpired)

\* a renewal of the signer's own handle, after its expiry, that was accepted
C2_Witness ==
    /\ ValidRegistration
    /\ <<last.platform, last.handle>> \in DOMAIN PreHandles
    /\ PreHandles[<<last.platform, last.handle>>] = last.signer
    /\ OwnExpired
    /\ PreRecords[last.signer].socials[last.platform].handle = last.handle
    /\ last.result = "ok"

(* -------------------------------- C3 ---------------------------------- *)

\* every call whose deadline is not above the current height is rejected with
\* "expired request", whatever its signature, after no storage write, and
\* leaves both maps as they were
C3_ExpiredRejected ==
    (Called /\ ~NotExpired)
        => /\ last.result = "expired request"
           /\ last.writes = 0
           /\ records = PreRecords
           /\ handles = PreHandles

\* C3: deadline enforcement.  A call of any of the three methods with
\* max_block_height <= block height is rejected as expired before the
\* signature is looked at and changes nothing; the height never decreases,
\* so the same request stays expired at every later height.
C3_DeadlineEnforcement == []C3_ExpiredRejected /\ [][height' >= height]_vars

\* a register_social with bytes that are no signature, for a handle that is
\* in the index, rejected as expired at a height above its deadline
C3_Witness ==
    /\ last.op = "register_social"
    /\ last.max_block_height < height
    /\ last.signature = Malformed
    /\ <<last.platform, last.handle>> \in DOMAIN handles
    /\ last.result = "expired request"

(* -------------------------------- C4 ---------------------------------- *)

\* a register_social with a deadline in the future and a well-formed
\* signature that is not the authority's signature of the submitted fields
MismatchedRegistration ==
    /\ last.op = "register_social"
    /\ NotExpired
    /\ last.signature.wellformed
    /\ ~ValidlySigned

\* C4 (as claimed): such a request is always answered "unverified data".
C4_SignatureBeforeArbiter ==
    MismatchedRegistration => last.result = "unverified data"

\* the signer has a record, the handle is in the index, and the signer's own
\* attestation for the platform is missing or has expiry_date >= now
ArbiterRejects ==
    /\ last.signer \in DOMAIN PreRecords
    /\ <<last.platform, last.handle>> \in DOMAIN PreHandles
    /\ ~OwnExpired

\* C4 (amended): a mismatched registration is never accepted and changes
\* nothing; it is answered "handle already registered" when the handle check
\* of line 54, which runs first, rejects the request, and "unverified data"
\* otherwise.
C4_SignatureBinding ==
    MismatchedRegistration
        => /\ last.result = IF ArbiterRejects THEN "handle already registered"
                                              ELSE "unverified data"
           /\ records = PreRecords
           /\ handles = PreHandles

\* a mismatched registration, by a signer with a record, for a handle in the
\* index, that the handle check lets through and the verifier rejects
C4_Witness ==
    /\ MismatchedRegistration
    /\ last.signer \in DOMAIN PreRecords
    /\ <<last.platform, last.handle>> \in DOMAIN PreHandles
    /\ last.result = "unverified data"

(* -------------------------------- C5 ---------------------------------- *)

\* C5 (as claimed): a request that was accepted before and is submitted again
\* unchanged, while its deadline is above the current height, is accepted.
C5_ReplaySucceeds ==
    (Called /\ kept # None /\ Request(last) = kept[1] /\ NotExpired)
        => last.result = "ok"

(* -------------------------------- C6 ---------------------------------- *)

\* C6 (as claimed): a rejected call leaves both maps as they were, and no
\* storage write was issued before the check that rejected it.
C6_NoPartialMutation ==
    Rejected => /\ records = PreRecords
                /\ handles = PreHandles
                /\ last.writes = 0

(* -------------------------------- C7 ---------------------------------- *)

\* another identity's attestation for the requested (platform, handle) that
\* the index points to and that has expired
ExpiredHolder(a) ==
    /\ a # last.signer
    /\ <<last.platform, last.handle>> \in DOMAIN PreHandles
    /\ PreHandles[<<last.platform, last.handle>>] = a
    /\ HasSocial(PreRecords, a, last.platform)
    /\ PreRecords[a].socials[last.platform].handle = last.handle
    /\ IsExpired(PreRecords[a].socials[last.platform])

\* C7 (as claimed): a validly signed, non-expired registration of a handle
\* whose holder's attestation has expired succeeds, and the index then maps
\* the handle to the requester.
C7_ExpiryReclamation ==
    (ValidRegistration /\ \E a \in Identities : ExpiredHolder(a))
        => /\ last.result = "ok"
           /\ handles[<<last.platform, last.handle>>] = last.signer

(* -------------------------------- C8 ---------------------------------- *)

\* C8 (as claimed): when the index maps the handle to another identity, a
\* validly signed, non-expired registration is accepted only if the
\* requester's own attestation for the platform has expired, and is answered
\* "handle already registered" in every other case.
C8_ConflictRule ==
    (/\ ValidRegistration
     /\ <<last.platform, last.handle>> \in DOMAIN PreHandles
     /\ PreHandles[<<last.platform, last.handle>>] # last.signer)
        => /\ last.result = "ok" => OwnExpired
           /\ ~OwnExpired => last.result = "handle already registered"

(* -------------------------------- C9 ---------------------------------- *)

\* the requester holds a live attestation for the platform with this proof
LiveDuplicate ==
    /\ HasSocial(PreRecords, last.signer, last.platform)
    /\ IsLive(PreRecords[last.signer].socials[last.platform])
    /\ PreRecords[last.signer].socials[last.platform].proof = last.proof

\* C9 (as claimed): a validly signed, non-expired registration is answered
\* "incorrect proof" exactly when the requester holds a live attestation for
\* the platform with the same proof.
C9_DuplicateProofGuard ==
    ValidRegistration => (last.result = "incorrect proof" <=> LiveDuplicate)

(* -------------------------------- C10 --------------------------------- *)

\* the fields of the signer's record before the call (unset and empty when
\* there was no record)
PreAccessKey ==
    IF last.signer \in DOMAIN PreRecords
    THEN PreRecords[last.signer].access_key_count ELSE None
PreAge ==
    IF last.signer \in DOMAIN PreRecords
    THEN PreRecords[last.signer].account_age ELSE None
PreSocials ==
    IF last.signer \in DOMAIN PreRecords
    THEN PreRecords[last.signer].socials ELSE << >>

\* C10: field isolation.  An accepted update_access_key leaves the signer's
\* account_age and socials as they were, an accepted update_contract_age
\* leaves the signer's access_key_count and socials as they were, and
\* neither changes the handle index.
C10_FieldIsolation ==
    /\ (Accepted /\ last.op = "update_access_key")
          => /\ records[last.signer].account_age = PreAge
             /\ records[last.signer].socials = PreSocials
             /\ handles = PreHandles
    /\ (Accepted /\ last.op = "update_contract_age")
          => /\ records[last.signer].access_key_count = PreAccessKey
             /\ records[last.signer].socials = PreSocials
             /\ handles = PreHandles

\* an accepted update_access_key on a record that had an account_age and both
\* platforms, and whose access_key_count it changed
C10_Witness ==
    /\ Accepted /\ last.op = "update_access_key"
    /\ PreAge # None
    /\ DOMAIN PreSocials = Platforms
    /\ PreAccessKey # None
    /\ PreAccessKey # records[last.signer].access_key_count

(* -------------------------------- C11 --------------------------------- *)

\* C11 (as claimed): predicates fail closed.  For an identity that has no
\* record, or whose record has access_key_count unset, connected_to_5_contracts,
\* connected_to_10_contracts and connected_to_20_contracts return false and do
\* not abort; connected_to_lens, connected_to_farcaster and
\* connected_to_platform return false when the record or the platform entry
\* is absent.
C11_PredicatesFailClosed ==
    \A a \in Identities :
        /\ (Get(records, a) = None \/ records[a].access_key_count = None)
              => /\ connected_to_5_contracts(a) = Returns(FALSE)
                 /\ connected_to_10_contracts(a) = Returns(FALSE)
                 /\ connected_to_20_contracts(a) = Returns(FALSE)
        /\ ~HasSocial(records, a, "lens") => connected_to_lens(a) = Returns(FALSE)
        /\ ~HasSocial(records, a, "farcaster")
              => connected_to_farcaster(a) = Returns(FALSE)
        /\ \A p \in Platforms :
              ~HasSocial(records, a, p) => connected_to_platform(a, p) = Returns(FALSE)

(* -------------------------------- C12 --------------------------------- *)

\* C12 (as claimed): index/record agreement.  For every handle-index entry
\* (p, h) -> X, X's record has an attestation for p that names h or has
\* expired; in particular the entry never coexists with a live attestation
\* of X for p that names a different handle.
C12_IndexRecordAgreement ==
    \A k \in DOMAIN handles :
        LET X == handles[k]
            p == k[1]
            h == k[2] IN
        /\ HasSocial(records, X, p)
        /\ \/ records[X].socials[p].handle = h
           \/ IsExpired(records[X].socials[p])

(* -------------------------------- C13 --------------------------------- *)

\* the signer of the transaction changed its own entry for the platform by
\* an accepted register_social
OwnRegistration(a, p) ==
    Accepted /\ last.op = "register_social" /\ last.signer = a /\ last.platform = p

C14_RegistrationPostcondition ==
    (Accepted /\ last.op = "register_social") =>
        /\ <<last.platform, last.handle>> \in DOMAIN handles
        /\ handles[<<last.platform, last.handle>>] = last.signer
        /\ HasSocial(records, last.signer, last.platform)
        /\ records[last.signer].socials[last.platform] =
              [issued_date |-> now, handle |-> last.handle, proof |-> last.proof,
               expiry_date |-> now + ValidityWindow]

\* an accepted register_social took the index entry from another identity
\* whose attestation of that handle was live
C14_Witness ==
    /\ Accepted /\ last.op = "register_social"
    /\ <<last.platform, last.handle>> \in DOMAIN PreHandles
    /\ LET Y == PreHandles[<<last.platform, last.handle>>] IN
          /\ Y # last.signer
          /\ HasSocial(PreRecords, Y, last.platform)
          /\ PreRecords[Y].socials[last.platform].handle = last.handle
          /\ IsLive(PreRecords[Y].socials[last.platform])

(* -------------------------------- C15 --------------------------------- *)

\* C15: registration frame.  An accepted register_social leaves the signer's
\* access_key_count and account_age as they were (unset when the call
\* created the record) and, for every platform other than the submitted one,
\* the signer's socials entry as it was (absent when it was absent).
C15_RegistrationFrame ==
    (Accepted /\ last.op = "register_social") =>
        /\ records[last.signer].access_key_count = PreAccessKey
        /\ records[last.signer].account_age = PreAge
        /\ \A q \in Platforms \ {last.platform} :
              Get(records[last.signer].socials, q) = Get(PreSocials, q)

\* an accepted register_social on a record that had both scalar fields set
\* and an entry for the other platform
C15_Witness ==
    /\ Accepted /\ last.op = "register_social"
    /\ PreAccessKey # None
    /\ PreAge # None
    /\ \E q \in Platforms \ {last.platform} : q \in DOMAIN PreSocials

(* -------------------------------- C16 --------------------------------- *)

\* the scalar fields of an identity in a records map, unset without a record
AccessKeyOf(recs, a) == IF a \in DOMAIN recs THEN recs[a].access_key_count ELSE None
AgeOf(recs, a) == IF a \in DOMAIN recs THEN recs[a].account_age ELSE None

AcceptedAccessKey(a) == Accepted /\ last.op = "update_access_key" /\ last.signer = a
AcceptedAge(a) == Accepted /\ last.op = "update_contract_age" /\ last.signer = a

\* C16: scalar updates are last-writer-wins with lazy creation.  Both fields
\* are unset without a record; an accepted update_access_key by X sets X's access_key_count
\* to the submitted value and no other transaction changes it, the same for
\* update_contract_age and account_age, so each field holds the value of the
\* most recently accepted update of its owner; a scalar update that creates
\* the record leaves the other scalar unset and socials empty.
C16_ScalarLastWriterWins ==
    Called => \A a \in Identities :
          /\ AccessKeyOf(records, a) =
                IF AcceptedAccessKey(a) THEN Some(last.account_info)
                ELSE AccessKeyOf(PreRecords, a)
          /\ AgeOf(records, a) =
                IF AcceptedAge(a) THEN Some(last.account_info)
                ELSE AgeOf(PreRecords, a)
          /\ (AcceptedAccessKey(a) /\ a \notin DOMAIN PreRecords)
                => records[a].account_age = None /\ records[a].socials = << >>
          /\ (AcceptedAge(a) /\ a \notin DOMAIN PreRecords)
                => records[a].access_key_count = None /\ records[a].socials = << >>

\* an accepted update_contract_age replaced an account_age set by an earlier
\* one with a different value
C16_Witness ==
    /\ AcceptedAge(last.signer)
    /\ PreAge # None
    /\ PreAge # Some(last.account_info)
    /\ records[last.signer].account_age = Some(last.account_info)

(* -------------------------------- C17 --------------------------------- *)

\* the attestation was in the identity's record, as it is, before the transaction
Untouched(a, p) ==
    HasSocial(PreRecords, a, p) /\ PreRecords[a].socials[p] = records[a].socials[p]

\* C17: validity window invariant.  Every stored attestation expires exactly
\* one validity window after its issued_date; its issued_date is the block
\* timestamp of the transaction that stored it, so it is never later than
\* the current timestamp.
C17_ValidityWindow ==
    \A a \in DOMAIN records :
        \A p \in DOMAIN records[a].socials :
            LET sd == records[a].socials[p] IN
            /\ sd.expiry_date = sd.issued_date + ValidityWindow
            /\ sd.issued_date <= now
            /\ (Called /\ ~Untouched(a, p)) => sd.issued_date = now

\* a registration accepted at a later timestamp than an attestation another
\* identity still holds
C17_Witness ==
    /\ Accepted /\ last.op = "register_social"
    /\ records[last.signer].socials[last.platform].issued_date = now
    /\ \E b \in DOMAIN records :
          /\ b # last.signer
          /\ HasSocial(records, b, last.platform)
          /\ records[b].socials[last.platform].issued_date < now

(* -------------------------------- C18 --------------------------------- *)

\* an accepted register_social for a platform the signer already had an
\* attestation for
Reregistration ==
    /\ Accepted /\ last.op = "register_social"
    /\ last.platform \in DOMAIN PreSocials

\* C18: expiry never moves backwards.  With the block timestamp of
\* AdvanceBlock, which does not go back, an accepted register_social for a
\* platform the signer had an attestation for stores an expiry_date that is
\* not earlier than the one it replaces.
C18_ExpiryMonotone ==
    Reregistration =>
        records[last.signer].socials[last.platform].expiry_date
            >= PreSocials[last.platform].expiry_date

\* a re-registration accepted at a later timestamp than the attestation it
\* replaces, with a later expiry_date
C18_Witness ==
    /\ Reregistration
    /\ PreSocials[last.platform].issued_date < now
    /\ records[last.signer].socials[last.platform].expiry_date
          > PreSocials[last.platform].expiry_date

(* -------------------------------- C19 --------------------------------- *)

\* C19: every handle-index entry is backed by a record.  If the index maps
\* (p, h) to X then X has a record whose socials has an entry for p; the
\* index write of a registration that is rejected afterwards does not stay.
C19_IndexBacked ==
    /\ \A k \in DOMAIN handles : HasSocial(records, handles[k], k[1])
    /\ (Rejected /\ last.writes > 0) => handles = PreHandles

\* a registration was rejected for its proof after it had written an index
\* entry that was not there before, and the entry is not there
C19_Witness ==
    /\ Rejected /\ last.result = "incorrect proof"
    /\ last.writes = 1
    /\ <<last.platform, last.handle>> \notin DOMAIN PreHandles
    /\ <<last.platform, last.handle>> \notin DOMAIN handles

(* -------------------------------- C20 --------------------------------- *)

\* C20: writes are confined to the signer.  Whatever the call and its
\* outcome, the record of every identity other than the signer is as it was
\* (absent if it was absent), and every index entry other than the one for
\* the submitted (platform, handle) is as it was.
C20_WritesConfined ==
    Called =>
        /\ \A Y \in Identities \ {last.signer} :
              Get(records, Y) = Get(PreRecords, Y)
        /\ \A k \in (DOMAIN handles \cup DOMAIN PreHandles)
                        \ {<<last.platform, last.handle>>} :
              Get(handles, k) = Get(PreHandles, k)

\* an accepted register_social took one index entry from an identity whose
\* record stayed as it was, while that identity kept another index entry
C20_Witness ==
    /\ Accepted /\ last.op = "register_social"
    /\ <<last.platform, last.handle>> \in DOMAIN PreHandles
    /\ LET Y == PreHandles[<<last.platform, last.handle>>] IN
          /\ Y # last.signer
          /\ Y \in DOMAIN records
          /\ records[Y] = PreRecords[Y]
          /\ \E k \in DOMAIN handles :
                k # <<last.platform, last.handle>> /\ handles[k] = Y

====
